---- MODULE Spec2Model ----
\* A model of csvexport.py: the command-line front end, main() (channel and
\* scale resolution, calibration-file loading, device life cycle, sampling-rate
\* measurement, CSV export) and calibration_routine().
\*
\* Numbers.  Python floats are modelled as exact fixed-point integers:
\* scale factors (vscale) in thousandths (1.0 is 1000, 0.125 is 125), voltages,
\* measured values and zero offsets as integers, a correction factor as the
\* reduced fraction <<numerator, denominator>>.  Rounding of binary floating
\* point is outside the model.
\* None is modelled per field: <<>> for an absent list, 0 for an absent 1-based
\* channel number, -1 for an absent 0-based channel index, "None" for a path.
EXTENDS Integers, Sequences, FiniteSets, TLC

\* ---------------------------------------------------------------- bounds
MaxSel == 2          \* longest channel list drawn as input
MaxFactors == 2      \* longest vscale list drawn as input
MaxRecords == 2      \* most records per channel in a calibration file
MaxBatches == 2      \* most batches (iterations) the driver delivers to export
MaxRows == 2         \* most rows in one batch
MaxSessions == 2     \* export runs on the same destination path
MaxVoltages == 2     \* longest list of calibration voltages the operator types
MaxMeasures == 2     \* most cells the operator chooses to measure

\* ------------------------------------------------------- program constants
NumChannels == 8                         \* range(8), range(1, 9)
One == 1000                              \* the float 1.0, in thousandths
measurment_duration == 10                \* line 128
required_calibration_samples_nun == 512  \* line 217

Channels == 0..(NumChannels - 1)

\* ------------------------------------------------------------ list helpers
Range(s) == {s[i] : i \in DOMAIN s}

\* x in s / x not in s on a Python list
Contains(s, x) == \E i \in DOMAIN s : s[i] = x

\* s.index(x): the position (1-based here) of the first occurrence
Index(s, x) == CHOOSE i \in DOMAIN s : s[i] = x /\ \A j \in 1..(i - 1) : s[j] # x

\* sequences over S of length lo..hi
SeqsOf(S, lo, hi) == UNION {[1..n -> S] : n \in lo..hi}

\* dict assignment d[k] = v on a dict modelled as a function
Put(d, k, v) == [x \in (DOMAIN d) \cup {k} |-> IF x = k THEN v ELSE d[x]]

EmptyDict == [x \in {} |-> 0]

RECURSIVE Gcd(_, _)
Gcd(a, b) == IF b = 0 THEN a ELSE Gcd(b, a % b)

Abs(x) == IF x < 0 THEN 0 - x ELSE x

\* the fraction n/d in lowest terms with a positive denominator (d # 0)
Fraction(n, d) ==
    LET g == Gcd(Abs(n), Abs(d))
        s == IF d < 0 THEN 0 - 1 ELSE 1
    IN  <<(s * n) \div g, (s * d) \div g>>

\* ------------------------------------------- main, lines 29-54: the resolver
\* line 30
DefaultChannels == [i \in 1..NumChannels |-> i]

\* lines 29-30: None or an empty list selects all eight channels
ChannelsOrDefault(sel) == IF Len(sel) = 0 THEN DefaultChannels ELSE sel

\* line 32
ChannelsDistinct(sel) == Cardinality(Range(sel)) = Len(sel)

\* line 33
ChannelsInRange(sel) == \A i \in DOMAIN sel : 1 <= sel[i] /\ sel[i] <= NumChannels

\* line 34
ZeroBased(sel) == [i \in DOMAIN sel |-> sel[i] - 1]

\* line 36 (z = 0 is None)
CompensationInRange(z) == z = 0 \/ (1 <= z /\ z <= NumChannels)

\* line 48, reached only when the list is neither None nor of length 1
ArityOk(vsf_none, vsf, sel) == vsf_none \/ Len(vsf) = 1 \/ Len(vsf) = Len(sel)

\* the assertions of lines 32, 33, 36 and 48 on the arguments of main
AssertionsHold(a) ==
    LET sel == ChannelsOrDefault(a.selected_channels)
    IN  /\ ChannelsDistinct(sel)
        /\ ChannelsInRange(sel)
        /\ CompensationInRange(a.zero_offset_shift_compensation_channel)
        /\ ArityOk(a.vsf_none, a.vertical_scale_factor, sel)

\* a variant of ScaleVector that binds the factors to the selected channels in
\* numeric order instead of input order
ScaleVector_NumericOrder(vsf_none, vsf, sel0) ==
    IF vsf_none
    THEN [i \in Channels |-> One]
    ELSE IF Len(vsf) = 1
    THEN [i \in Channels |-> IF ~Contains(sel0, i) THEN One ELSE vsf[1]]
    ELSE [i \in Channels |->
            IF ~Contains(sel0, i) THEN One
            ELSE vsf[Cardinality({j \in Range(sel0) : j <= i})]]

\* lines 41-54: the vscale of every physical channel; sel0 is the 0-based list
ScaleVector(vsf_none, vsf, sel0) ==
    IF vsf_none
    THEN [i \in Channels |-> One]
    ELSE IF Len(vsf) = 1
    THEN [i \in Channels |-> IF ~Contains(sel0, i) THEN One ELSE vsf[1]]
    ELSE [i \in Channels |->
            IF ~Contains(sel0, i) THEN One ELSE vsf[Index(sel0, i)]]

\* ------------------------------------------------------------------ state
VARIABLES
    args,                    \* the command line, then the arguments of main()
    session,                 \* number of the current run of the program
    disk,                    \* content of the export path left by earlier runs
    interrupted,             \* where the operator's interrupt arrived, if it did
    pc,                      \* the statement the process is at
    exit_code,               \* the process's exit status once pc = "exited"
    error,                   \* the uncaught exception that ended it, or "none"
    log,                     \* messages logged so far
    selected_channels,       \* line 34: 0-based, in input order
    vertical_scale_factor,   \* lines 41-54: one factor per physical channel
    zosc,                    \* zero_offset_shift_compensation_channel, -1 = None
    correction_data,         \* line 56: channel -> vscale -> units -> factor
    load_pos,                \* lines 73/78: <<key number, record number>>
    device,                  \* the Hantek1008 object as main() drives it
    calls,                   \* driver operations invoked, in order
    counter,                 \* measure_sampling_rate
    start_time,              \* measure_sampling_rate, -1 = unbound
    now,                     \* time.perf_counter()
    measured_sampling_rate,  \* line 126/130: <<>> = None, else <<rows, seconds>>
    csv_file,                \* "unbound", "open" or "closed"
    sink,                    \* lines written to csv_file by this run
    channel_data,            \* the batch(es) just pulled from the driver
    batches,                 \* turns of the export loop that got their batch
    delivered,               \* the batches the driver handed to the export loop
    test_voltages,           \* calibration_routine: <<>> = None
    channel_id,              \* calibration_routine, line 233
    vidx,                    \* position in test_voltages, line 237
    calibration_data,        \* calibration_routine, line 218
    data,                    \* calibration_routine, line 250: rows collected
    calibration_file,        \* what line 272 wrote, <<>> while unwritten
    measures,                \* MEASURE decisions taken
    cmd,                     \* calibration_routine, line 238: the last answer
    measured_cells           \* the cells <<channel_id, vidx>> answered with MEASURE

procVars == <<pc, exit_code, error, log>>
cfgVars == <<selected_channels, vertical_scale_factor, zosc>>
loadVars == <<correction_data, load_pos>>
devVars == <<device, calls>>
rateVars == <<counter, start_time, now, measured_sampling_rate>>
sinkVars == <<csv_file, sink, channel_data, batches, delivered>>
calVars == <<test_voltages, channel_id, vidx, calibration_data, data,
             calibration_file, measures, cmd, measured_cells>>
envVars == <<args, session, disk, interrupted>>
vars == <<procVars, cfgVars, loadVars, devVars, rateVars, sinkVars, calVars, envVars>>

NotInterrupted == [at |-> "never", batches |-> 0]

NoDevice == [state |-> "none", closed |-> 0, paused |-> FALSE]

\* the state of a freshly started process
Fresh ==
    /\ interrupted = NotInterrupted
    /\ exit_code = 0 /\ error = "none" /\ log = {}
    /\ selected_channels = <<>> /\ vertical_scale_factor = <<>> /\ zosc = 0 - 1
    /\ correction_data = [c \in Channels |-> EmptyDict]
    /\ load_pos = <<1, 1>>
    /\ device = NoDevice /\ calls = <<>>
    /\ counter = 0 - 1 /\ start_time = 0 - 1 /\ now = 0
    /\ measured_sampling_rate = <<>>
    /\ csv_file = "unbound" /\ sink = <<>> /\ channel_data = <<>> /\ batches = 0
    /\ delivered = <<>>
    /\ test_voltages = <<>> /\ channel_id = 0 /\ vidx = 1
    /\ calibration_data = EmptyDict /\ data = 0
    /\ calibration_file = <<>> /\ measures = 0
    /\ cmd = "none" /\ measured_cells = <<>>

\* the process ends: sys.exit(code), parser.error, or an uncaught exception
Exit(code, exc) ==
    /\ pc' = "exited"
    /\ exit_code' = code
    /\ error' = exc

\* ----------------------------------------------- __main__, lines 285-370
\* line 314: the vscale factors the command line accepts
ValidVscaleFactors == {1000, 125, 20}

\* lines 285-289 (channel_type), 295 (one of csv_path / --calibrate),
\* 313 (choices): what parse_args itself rejects with parser.error
ParseArgsOk(a) ==
    /\ ChannelsInRange(a.selected_channels)
    /\ CompensationInRange(a.zero_offset_shift_compensation_channel)
    /\ Range(a.vertical_scale_factor) \subseteq ValidVscaleFactors
    /\ (a.csv_file_path = "None") # (a.calibrate_output_file_path = "None")

\* the namespace parse_args returns: defaults of lines 307 and 313
Parsed(a) ==
    [a EXCEPT !.selected_channels = ChannelsOrDefault(a.selected_channels),
              !.vertical_scale_factor =
                  IF Len(a.vertical_scale_factor) = 0 THEN <<One>>
                  ELSE a.vertical_scale_factor]

\* lines 346-349: the first two arg_assert calls
ArgAssertArity(a) ==
    Len(a.vertical_scale_factor) = 1
        \/ Len(a.vertical_scale_factor) = Len(a.selected_channels)

ArgAssertDistinct(a) == ChannelsDistinct(a.selected_channels)

\* lines 350-353: str has no method contains, so evaluating the second operand
\* of either "or" raises AttributeError
ContainsRaises(a) ==
    \/ a.calibration_file.kind # "none"
    \/ a.zero_offset_shift_compensation_channel # 0

\* lines 354-358: the last two arg_assert calls
ArgAssertCompensation(a) ==
    LET z == a.zero_offset_shift_compensation_channel
    IN  /\ (z = 0 \/ Len(a.selected_channels) < NumChannels)
        /\ (z = 0 \/ ~Contains(a.selected_channels, z))

\* lines 338-370: parse the command line, check it, call main
CliParse ==
    /\ pc = "cli"
    /\ IF ~ParseArgsOk(args)
       THEN Exit(2, "none") /\ UNCHANGED args
       ELSE LET a == Parsed(args)
            IN  IF ~(ArgAssertArity(a) /\ ArgAssertDistinct(a))
                THEN Exit(2, "none") /\ UNCHANGED args
                ELSE IF ContainsRaises(a)
                THEN Exit(1, "AttributeError") /\ UNCHANGED args
                ELSE IF ~ArgAssertCompensation(a)
                THEN Exit(2, "none") /\ UNCHANGED args
                ELSE /\ pc' = "main"
                     /\ args' = a
                     /\ UNCHANGED <<exit_code, error>>
    /\ UNCHANGED <<log, session, disk, interrupted>>
    /\ UNCHANGED <<cfgVars, loadVars, devVars, rateVars, sinkVars, calVars>>

\* ------------------------------------------------------ main, lines 29-54
Resolve ==
    /\ pc = "main"
    /\ IF ~AssertionsHold(args)
       THEN Exit(1, "AssertionError") /\ UNCHANGED cfgVars
       ELSE LET sel0 == ZeroBased(ChannelsOrDefault(args.selected_channels))
            IN  /\ selected_channels' = sel0
                /\ zosc' = args.zero_offset_shift_compensation_channel - 1
                /\ vertical_scale_factor' =
                       ScaleVector(args.vsf_none, args.vertical_scale_factor, sel0)
                /\ pc' = "load"
                /\ UNCHANGED <<exit_code, error>>
    /\ UNCHANGED <<log, loadVars, devVars, rateVars, sinkVars, calVars, envVars>>

\* ------------------------------------------------------ main, lines 56-94
\* sorted(calibration_data.items()): the keys in ascending order
RECURSIVE SortedKeys(_)
SortedKeys(S) ==
    IF S = {} THEN <<>>
    ELSE LET m == CHOOSE x \in S : \A y \in S : x <= y
         IN  <<m>> \o SortedKeys(S \ {m})

\* line 81
Units(test) == test.measured_value - test.zero_offset

\* line 82: the denominator units * 0.01 * vscale is zero
DivisionByZero(test) == Units(test) * test.vscale = 0

\* line 82, for a non-zero denominator:
\* test_voltage / (units * 0.01 * (vscale / 1000))
CorrectionFactor(test) ==
    Fraction(test.test_voltage * 100 * 1000, Units(test) * test.vscale)

\* a variant of Store that keeps the factor a key already has
Store_KeepsFirst(cd, ch, test) ==
    LET vscale == test.vscale
        byUnits == IF vscale \notin DOMAIN cd[ch] THEN EmptyDict ELSE cd[ch][vscale]
    IN  IF Units(test) \in DOMAIN byUnits THEN cd
        ELSE [cd EXCEPT ![ch] =
                Put(cd[ch], vscale, Put(byUnits, Units(test), CorrectionFactor(test)))]

\* lines 86-89
Store(cd, ch, test) ==
    LET vscale == test.vscale
        byUnits == IF vscale \notin DOMAIN cd[ch] THEN EmptyDict ELSE cd[ch][vscale]
    IN  [cd EXCEPT ![ch] =
            Put(cd[ch], vscale, Put(byUnits, Units(test), CorrectionFactor(test)))]

\* lines 59-71
LoadOpen ==
    /\ pc = "load"
    /\ LET kind == args.calibration_file.kind
       IN  IF kind = "none"
           THEN pc' = "construct" /\ UNCHANGED <<exit_code, error, log>>
           ELSE IF kind = "missing"
           THEN Exit(1, "none") /\ log' = log \cup {"error: no file"}
           ELSE IF kind = "dir"
           THEN Exit(1, "none") /\ log' = log \cup {"error: is a directory"}
           ELSE /\ pc' = "load_records"
                /\ log' = log \cup {"info: using calibration data"}
                /\ UNCHANGED <<exit_code, error>>
    /\ UNCHANGED <<cfgVars, loadVars, devVars, rateVars, sinkVars, calVars, envVars>>

\* lines 73-89: one step of the two nested loops
LoadRecord ==
    /\ pc = "load_records"
    /\ LET file == args.calibration_file.data
           keys == SortedKeys(DOMAIN file)
           k == load_pos[1]
           r == load_pos[2]
       IN  /\ k <= Len(keys)
           /\ IF r > Len(file[keys[k]])
              THEN /\ load_pos' = <<k + 1, 1>>
                   /\ UNCHANGED <<correction_data, procVars>>
              ELSE LET test == file[keys[k]][r]
                   IN  IF DivisionByZero(test)
                       THEN /\ Exit(1, "ZeroDivisionError")
                            /\ UNCHANGED <<correction_data, load_pos, log>>
                       ELSE /\ correction_data' = Store(correction_data, keys[k], test)
                            /\ load_pos' = <<k, r + 1>>
                            /\ UNCHANGED procVars
    /\ UNCHANGED <<cfgVars, devVars, rateVars, sinkVars, calVars, envVars>>

\* line 92
ChannelsWithoutCd(cd) == {i + 1 : i \in {c \in Channels : DOMAIN cd[c] = {}}}

\* lines 92-94, after the loop
LoadFinish ==
    /\ pc = "load_records"
    /\ load_pos[1] > Cardinality(DOMAIN args.calibration_file.data)
    /\ pc' = "construct"
    /\ log' = IF ChannelsWithoutCd(correction_data) # {}
              THEN log \cup {"warning: no calibration data"} ELSE log
    /\ UNCHANGED <<exit_code, error>>
    /\ UNCHANGED <<cfgVars, loadVars, devVars, rateVars, sinkVars, calVars, envVars>>

\* ------------------------------------------------ the driver, as main uses it
Call(op, n) == [op |-> op, n |-> n]

\* device.close()
Closed(d) == [d EXCEPT !.closed = d.closed + 1]

\* the process dies of a KeyboardInterrupt no handler catches: status 1 up to
\* Python 3.7, death by SIGINT (130 to the shell) from Python 3.8 on
KilledByInterrupt ==
    /\ pc' = "exited"
    /\ exit_code' \in {1, 130}
    /\ error' = "KeyboardInterrupt"

\* ----------------------------------------------------- main, lines 96-119
\* lines 96-99
Construct ==
    /\ pc = "construct"
    /\ device' = [NoDevice EXCEPT !.state = "constructed"]
    /\ pc' = "connect"
    /\ UNCHANGED <<exit_code, error, log, calls>>
    /\ UNCHANGED <<cfgVars, loadVars, rateVars, sinkVars, calVars, envVars>>

\* lines 102-108: connect() returns or raises RuntimeError
Connect ==
    /\ pc = "connect"
    /\ calls' = Append(calls, Call("connect", 0))
    /\ \E outcome \in {"ok", "RuntimeError"} :
          IF outcome = "ok"
          THEN /\ device' = [device EXCEPT !.state = "connected"]
               /\ pc' = "init"
               /\ UNCHANGED <<exit_code, error, log>>
          ELSE /\ log' = log \cup {"error: connect"}
               /\ Exit(1, "none")
               /\ UNCHANGED device
    /\ UNCHANGED <<cfgVars, loadVars, rateVars, sinkVars, calVars, envVars>>

\* a variant of AfterInit that looks at line 127 before line 121
AfterInit_MeasuresFirst(a) ==
    IF a.do_sampling_rate_measure THEN "measure"
    ELSE IF a.calibrate_output_file_path # "None" THEN "cal_pause"
    ELSE "prepare"

\* line 121 and line 127: where main goes once the device is initialised
AfterInit(a) ==
    IF a.calibrate_output_file_path # "None" THEN "cal_pause"
    ELSE IF a.do_sampling_rate_measure THEN "measure"
    ELSE "prepare"

\* lines 110-116: init() returns or raises RuntimeError
InitDevice ==
    /\ pc = "init"
    /\ calls' = Append(calls, Call("init", 0))
    /\ \E outcome \in {"ok", "RuntimeError"} :
          IF outcome = "ok"
          THEN /\ device' = [device EXCEPT !.state = "initialised"]
               /\ pc' = AfterInit(args)
               /\ UNCHANGED <<exit_code, error, log>>
          ELSE /\ log' = log \cup {"error: init"}
               /\ Exit(1, "none")
               /\ UNCHANGED device
    /\ UNCHANGED <<cfgVars, loadVars, rateVars, sinkVars, calVars, envVars>>

\* ---------------------------- measure_sampling_rate, lines 195-207 (line 130)
\* a variant of RequiredSamples that adds the duration and the rate
RequiredSamples_Sum(used_sampling_rate) == measurment_duration + used_sampling_rate

\* line 196
RequiredSamples(used_sampling_rate) == measurment_duration * used_sampling_rate

\* the sizes of the batches the driver delivers while the rate is measured
MeasureRows == {4, 6}

\* lines 198-207: one turn of the loop over request_samples_roll_mode(), or the
\* loop's end.  The generator hands over a batch of n rows, ends, or raises.
\* Waiting for a batch takes one tick of the clock; the rate returned,
\* counter/duration, is kept as the pair <<counter, duration in ticks>>.
MeasurePull ==
    /\ pc = "measure"
    /\ \E outcome \in {"batch", "end", "RuntimeError"}, n \in MeasureRows :
          IF outcome = "batch"
          THEN LET started == IF counter = 0 - 1 THEN now + 1 ELSE start_time
                   count == (IF counter = 0 - 1 THEN 0 ELSE counter) + n
               IN  /\ calls' = Append(calls, Call("request_samples_roll_mode", n))
                   /\ now' = now + 1
                   /\ start_time' = started
                   /\ counter' = count
                   /\ IF count >= RequiredSamples(args.sampling_rate)
                      THEN /\ measured_sampling_rate' = <<count, now' - started>>
                           /\ pc' = "prepare"
                           /\ UNCHANGED <<exit_code, error>>
                      ELSE UNCHANGED <<pc, exit_code, error, measured_sampling_rate>>
          ELSE IF outcome = "RuntimeError"
          THEN /\ n = 4
               /\ calls' = Append(calls, Call("request_samples_roll_mode", 0))
               /\ Exit(1, "RuntimeError")
               /\ UNCHANGED rateVars
          ELSE /\ n = 4
               /\ calls' = Append(calls, Call("request_samples_roll_mode", 0))
               /\ IF start_time = 0 - 1
                  THEN Exit(1, "UnboundLocalError") /\ UNCHANGED rateVars
                  ELSE /\ measured_sampling_rate' = <<counter, now - start_time>>
                       /\ pc' = "prepare"
                       /\ UNCHANGED <<exit_code, error, counter, start_time, now>>
    /\ UNCHANGED <<log, device>>
    /\ UNCHANGED <<cfgVars, loadVars, sinkVars, calVars, envVars>>

\* the source hands the estimator a batch (the loop of line 198 goes on)
MeasureDelivers == MeasurePull /\ counter' # counter

\* ---------------------------------------------------- main, lines 133-163
\* lines 136-137
WithRawCompanions(raw_or_volt, sel0) ==
    IF raw_or_volt = "volt+raw"
    THEN sel0 \o [k \in DOMAIN sel0 |-> sel0[k] + NumChannels]
    ELSE sel0

Prepare ==
    /\ pc = "prepare"
    /\ selected_channels' = WithRawCompanions(args.raw_or_volt, selected_channels)
    /\ log' = log \cup {"info: processing data of channels"}
    /\ pc' = "open"
    /\ UNCHANGED <<exit_code, error, vertical_scale_factor, zosc>>
    /\ UNCHANGED <<loadVars, devVars, rateVars, sinkVars, calVars, envVars>>

\* lines 141-150: sys.stdout, lzma.open(path, 'at') or open(path, 'at')
OpenSink ==
    /\ pc = "open"
    /\ csv_file' = "open"
    /\ log' = log \cup {"info: exporting data"}
    /\ pc' = "header"
    /\ UNCHANGED <<exit_code, error, sink, channel_data, batches, delivered>>
    /\ UNCHANGED <<cfgVars, loadVars, devVars, rateVars, calVars, envVars>>

Line(kind, v) == [kind |-> kind, v |-> v]

\* line 152: ch_<n> for a volt column, ch_<n>_raw for a raw companion
ChannelTitle(i) ==
    IF i < NumChannels THEN [ch |-> i + 1, raw |-> FALSE]
    ELSE [ch |-> i + 1 - NumChannels, raw |-> TRUE]

\* lines 153-161: the lines of the header that do not need the driver
HeaderLines(sel, rate, measured, vsf) ==
    <<Line("titles", [k \in DOMAIN sel |-> ChannelTitle(sel[k])]),
      Line("samplingrate", <<rate>>)>>
    \o (IF measured # <<>> THEN <<Line("measured samplingrate", measured)>> ELSE <<>>)
    \o <<Line("unix time", <<>>),
         Line("iso time", <<>>),
         Line("vscale", [k \in 1..NumChannels |-> vsf[k - 1]]),
         Line("calibration data", <<>>)>>

\* the vscales device.get_calibration_data() has zero offsets for
DeviceVscales == ValidVscaleFactors

\* lines 162-163: one line per vscale, sorted
ZeroOffsetLines ==
    LET vs == SortedKeys(DeviceVscales)
    IN  [k \in DOMAIN vs |-> Line("zero_offset", <<vs[k]>>)]

\* a variant of MetaWritten that is content with the first header line
MetaWritten_FirstLine(written, header) == Len(written) >= 1

\* the header lines of lines 153-161 are all written
MetaWritten(written, header) == Len(written) >= Len(header)

\* lines 153-161, one csv_file.write per step
WriteHeaderLine ==
    /\ pc = "header"
    /\ LET header == HeaderLines(selected_channels, args.sampling_rate,
                                 measured_sampling_rate, vertical_scale_factor)
       IN  IF MetaWritten(sink, header)
           THEN pc' = "header_cal" /\ UNCHANGED sink
           ELSE sink' = Append(sink, header[Len(sink) + 1]) /\ UNCHANGED pc
    /\ UNCHANGED <<exit_code, error, log, csv_file, channel_data, batches, delivered>>
    /\ UNCHANGED <<cfgVars, loadVars, devVars, rateVars, calVars, envVars>>

\* lines 162-163
WriteZeroOffsets ==
    /\ pc = "header_cal"
    /\ calls' = Append(calls, Call("get_calibration_data", 0))
    /\ sink' = sink \o ZeroOffsetLines
    /\ pc' = "pull"
    /\ UNCHANGED <<exit_code, error, log, device, csv_file, channel_data, batches,
                   delivered>>
    /\ UNCHANGED <<cfgVars, loadVars, rateVars, calVars, envVars>>

\* ---------------------------------------------------- main, lines 165-192
\* the value the driver delivers for channel index ch at sample i of batch b
Sample(ch, b, i) == <<ch, b, i>>

\* a batch as the driver hands it over: one list of n values per channel
BatchData(b, n, nch) == [c \in 1..nch |-> [i \in 1..n |-> Sample(c - 1, b, i)]]

\* the channel lists a driver call returns: 16 in volt+raw roll mode, else 8
DriverChannels(roll_mode, raw_or_volt) ==
    IF roll_mode /\ raw_or_volt = "volt+raw" THEN 2 * NumChannels ELSE NumChannels

\* line 167
SelectChannels(cd, sel) == [k \in DOMAIN sel |-> cd[sel[k] + 1]]

\* zip(*channel_data): one tuple per sample (the lists are equally long)
Zip(cd) ==
    IF Len(cd) = 0 THEN <<>>
    ELSE [i \in 1..Len(cd[1]) |-> [k \in DOMAIN cd |-> cd[k][i]]]

\* the rows lines 167-172 write for a roll-mode batch
RollRows(batch, sel, nch) ==
    LET rows == Zip(SelectChannels(BatchData(batch.b, batch.n, nch), sel))
    IN  [i \in DOMAIN rows |-> Line("row", rows[i])]

\* the rows line 182 or line 183 writes for a normal-mode buffer
NormalRows(batch, nch) ==
    LET rows == Zip(BatchData(batch.b, batch.n, nch))
    IN  [i \in DOMAIN rows |-> Line("row", rows[i])]

\* a variant of RowsToWrite that writes the secondary buffer before the primary
RowsToWrite_SecondaryFirst(at, cd, a, sel) ==
    LET nch == DriverChannels(a.roll_mode, a.raw_or_volt)
    IN  IF a.roll_mode THEN RollRows(cd[1], sel, nch)
        ELSE IF at = "write" THEN NormalRows(cd[2], nch)
        ELSE NormalRows(cd[1], nch)

\* the rows the write at this pc appends for the batch(es) just pulled
RowsToWrite(at, cd, a, sel) ==
    LET nch == DriverChannels(a.roll_mode, a.raw_or_volt)
    IN  IF a.roll_mode THEN RollRows(cd[1], sel, nch)
        ELSE IF at = "write" THEN NormalRows(cd[1], nch)
        ELSE NormalRows(cd[2], nch)

\* line 166 (next batch of the generator) or line 176
PullBatch ==
    /\ pc = "pull"
    /\ \E outcome \in {"batch", "end", "RuntimeError"}, n \in 1..MaxRows, m \in 1..MaxRows :
          IF outcome = "batch"
          THEN /\ batches < MaxBatches
               /\ batches' = batches + 1
               /\ pc' = "write"
               /\ IF args.roll_mode
                  THEN /\ m = 1
                       /\ channel_data' = <<[b |-> batches + 1, n |-> n]>>
                       /\ calls' = Append(calls, Call("request_samples_roll_mode", n))
                  ELSE /\ channel_data' = <<[b |-> 2 * batches + 1, n |-> n],
                                            [b |-> 2 * batches + 2, n |-> m]>>
                       /\ calls' = Append(calls, Call("request_samples_normal_mode", n + m))
               /\ delivered' = delivered \o channel_data'
               /\ UNCHANGED <<exit_code, error>>
          ELSE IF outcome = "RuntimeError"
          THEN /\ n = 1 /\ m = 1
               /\ calls' = Append(calls,
                      Call(IF args.roll_mode THEN "request_samples_roll_mode"
                           ELSE "request_samples_normal_mode", 0))
               /\ Exit(1, "RuntimeError")
               /\ UNCHANGED <<channel_data, batches, delivered>>
          ELSE /\ n = 1 /\ m = 1
               /\ args.roll_mode
               /\ calls' = Append(calls, Call("request_samples_roll_mode", 0))
               /\ pc' = "close_sink"
               /\ UNCHANGED <<exit_code, error, channel_data, batches, delivered>>
    /\ UNCHANGED <<log, device, csv_file, sink>>
    /\ UNCHANGED <<cfgVars, loadVars, rateVars, calVars, envVars>>

\* line 172, or lines 178-183 (one writerows per step)
WriteRows ==
    /\ pc \in {"write", "write2"}
    /\ sink' = sink \o RowsToWrite(pc, channel_data, args, selected_channels)
    /\ pc' = IF ~args.roll_mode /\ pc = "write" THEN "write2" ELSE "stamp"
    /\ UNCHANGED <<exit_code, error, log, csv_file, channel_data, batches, delivered>>
    /\ UNCHANGED <<cfgVars, loadVars, devVars, rateVars, calVars, envVars>>

\* line 173 or line 184
WriteTimestamp ==
    /\ pc = "stamp"
    /\ sink' = Append(sink, Line("checkpoint", <<>>))
    /\ channel_data' = <<>>
    /\ pc' = "pull"
    /\ UNCHANGED <<exit_code, error, log, csv_file, batches, delivered>>
    /\ UNCHANGED <<cfgVars, loadVars, devVars, rateVars, calVars, envVars>>

\* a variant of CloseSink that closes the device along with the file
CloseSink_ClosesDevice ==
    /\ pc = "close_sink"
    /\ IF csv_file = "unbound"
       THEN Exit(1, "UnboundLocalError") /\ UNCHANGED <<log, csv_file, device, calls>>
       ELSE /\ csv_file' = "closed"
            /\ device' = Closed(device)
            /\ calls' = Append(calls, Call("close", 0))
            /\ log' = log \cup {"info: exporting data finished"}
            /\ pc' = "close_device"
            /\ UNCHANGED <<exit_code, error>>
    /\ UNCHANGED <<sink, channel_data, batches, delivered>>
    /\ UNCHANGED <<cfgVars, loadVars, rateVars, calVars, envVars>>

\* lines 189-190
CloseSink ==
    /\ pc = "close_sink"
    /\ IF csv_file = "unbound"
       THEN Exit(1, "UnboundLocalError") /\ UNCHANGED <<log, csv_file>>
       ELSE /\ csv_file' = "closed"
            /\ log' = log \cup {"info: exporting data finished"}
            /\ pc' = "close_device"
            /\ UNCHANGED <<exit_code, error>>
    /\ UNCHANGED <<sink, channel_data, batches, delivered>>
    /\ UNCHANGED <<cfgVars, loadVars, devVars, rateVars, calVars, envVars>>

\* line 192, then main returns and the script ends
CloseDevice ==
    /\ pc = "close_device"
    /\ device' = Closed(device)
    /\ calls' = Append(calls, Call("close", 0))
    /\ Exit(0, "none")
    /\ UNCHANGED log
    /\ UNCHANGED <<cfgVars, loadVars, rateVars, sinkVars, calVars, envVars>>

\* a write to the sink, or opening it, fails (OSError): nothing catches it
SinkError ==
    /\ \/ pc \in {"header", "header_cal", "write", "write2", "stamp"}
       \/ pc = "open" /\ args.csv_file_path # "-"
    /\ Exit(1, "OSError")
    /\ UNCHANGED log
    /\ UNCHANGED <<cfgVars, loadVars, devVars, rateVars, sinkVars, calVars, envVars>>

\* ------------------------------------- calibration_routine, lines 210-272
\* what the operator may type at line 224; <<>> stands for text that does not
\* parse as comma separated floats
VoltageValues == {5, 10}

VoltageInputs == SeqsOf(VoltageValues, 0, MaxVoltages)

\* line 219
CalPause ==
    /\ pc = "cal_pause"
    /\ device' = [device EXCEPT !.paused = TRUE]
    /\ calls' = Append(calls, Call("pause", 0))
    /\ pc' = "cal_voltages"
    /\ UNCHANGED <<exit_code, error, log>>
    /\ UNCHANGED <<cfgVars, loadVars, rateVars, sinkVars, calVars, envVars>>

\* lines 221-235: ask for the voltages until they parse, then enter the loops
CalVoltages ==
    /\ pc = "cal_voltages"
    /\ \E in \in VoltageInputs :
          IF Len(in) = 0
          THEN UNCHANGED <<pc, test_voltages, calibration_data>>
          ELSE /\ test_voltages' = in
               /\ calibration_data' = Put(calibration_data, 0, <<>>)
               /\ pc' = "cal_prompt"
    /\ UNCHANGED <<channel_id, vidx, data, calibration_file, measures, cmd,
                   measured_cells>>
    /\ UNCHANGED <<exit_code, error, log>>
    /\ UNCHANGED <<cfgVars, loadVars, devVars, rateVars, sinkVars, envVars>>

\* a variant of AfterCell in which the break of line 243 is a continue
AfterCell_BreakContinues(cd, c, v, nv, leave) ==
    IF v < nv
    THEN [channel_id |-> c, vidx |-> v + 1, calibration_data |-> cd, pc |-> "cal_prompt"]
    ELSE IF c + 1 < NumChannels
    THEN [channel_id |-> c + 1, vidx |-> 1,
          calibration_data |-> Put(cd, c + 1, <<>>), pc |-> "cal_prompt"]
    ELSE [channel_id |-> c, vidx |-> v, calibration_data |-> cd, pc |-> "cal_write"]

\* a variant of AfterCell that empties the channel's list at every voltage, as
\* if line 235 stood inside the loop of line 237
AfterCell_EmptiesList(cd, c, v, nv, leave) ==
    IF ~leave /\ v < nv
    THEN [channel_id |-> c, vidx |-> v + 1,
          calibration_data |-> Put(cd, c, <<>>), pc |-> "cal_prompt"]
    ELSE IF c + 1 < NumChannels
    THEN [channel_id |-> c + 1, vidx |-> 1,
          calibration_data |-> Put(cd, c + 1, <<>>), pc |-> "cal_prompt"]
    ELSE [channel_id |-> c, vidx |-> v, calibration_data |-> cd, pc |-> "cal_write"]

\* lines 233-237: where the loops go after cell (c, v); leave = the break of
\* line 243.  A new channel gets its empty list (line 235); after the last
\* channel the routine reaches line 271.
AfterCell(cd, c, v, nv, leave) ==
    IF ~leave /\ v < nv
    THEN [channel_id |-> c, vidx |-> v + 1, calibration_data |-> cd, pc |-> "cal_prompt"]
    ELSE IF c + 1 < NumChannels
    THEN [channel_id |-> c + 1, vidx |-> 1,
          calibration_data |-> Put(cd, c + 1, <<>>), pc |-> "cal_prompt"]
    ELSE [channel_id |-> c, vidx |-> v, calibration_data |-> cd, pc |-> "cal_write"]

\* lines 238-245: the operator's decision
CalPrompt ==
    /\ pc = "cal_prompt"
    /\ \E answer \in {"measure", "s", "ss", "q"} :
          /\ cmd' = answer
          /\ IF answer = "q"
             THEN /\ pc' = "cal_return"
                  /\ UNCHANGED <<channel_id, vidx, calibration_data, measures,
                                 measured_cells>>
             ELSE IF answer \in {"s", "ss"}
             THEN LET to == AfterCell(calibration_data, channel_id, vidx,
                                      Len(test_voltages), answer = "ss")
                  IN  /\ pc' = to.pc
                      /\ channel_id' = to.channel_id
                      /\ vidx' = to.vidx
                      /\ calibration_data' = to.calibration_data
                      /\ UNCHANGED <<measures, measured_cells>>
             ELSE /\ measures < MaxMeasures
                  /\ measures' = measures + 1
                  /\ measured_cells' = Append(measured_cells, <<channel_id, vidx>>)
                  /\ pc' = "cal_resume"
                  /\ UNCHANGED <<channel_id, vidx, calibration_data>>
    /\ UNCHANGED <<test_voltages, data, calibration_file>>
    /\ UNCHANGED <<exit_code, error, log>>
    /\ UNCHANGED <<cfgVars, loadVars, devVars, rateVars, sinkVars, envVars>>

\* line 247
CalResume ==
    /\ pc = "cal_resume"
    /\ device' = [device EXCEPT !.paused = FALSE]
    /\ calls' = Append(calls, Call("cancel_pause", 0))
    /\ pc' = "cal_collect"
    /\ UNCHANGED <<exit_code, error, log>>
    /\ UNCHANGED <<cfgVars, loadVars, rateVars, sinkVars, calVars, envVars>>

\* a variant of ZipPulls for zip(rows, range(n)): the generator is asked first
\* and hands over a row that zip then drops
ZipPulls_GeneratorFirst(n) == n + 1

\* zip(range(n), rows): range is asked first, so the generator is asked for
\* exactly n rows
ZipPulls(n) == n

\* lines 250-255: the whole loop; the driver hands over the rows or raises
CalCollect ==
    /\ pc = "cal_collect"
    /\ \E outcome \in {"ok", "RuntimeError"} :
          IF outcome = "ok"
          THEN /\ data' = ZipPulls(required_calibration_samples_nun)
               /\ calls' = Append(calls, Call("request_samples_roll_mode_single_row",
                                              ZipPulls(required_calibration_samples_nun)))
               /\ pc' = "cal_repause"
               /\ UNCHANGED <<exit_code, error>>
          ELSE /\ calls' = Append(calls, Call("request_samples_roll_mode_single_row", 0))
               /\ Exit(1, "RuntimeError")
               /\ UNCHANGED data
    /\ UNCHANGED <<test_voltages, channel_id, vidx, calibration_data,
                   calibration_file, measures, cmd, measured_cells>>
    /\ UNCHANGED <<log, device>>
    /\ UNCHANGED <<cfgVars, loadVars, rateVars, sinkVars, envVars>>

\* line 257
CalRepause ==
    /\ pc = "cal_repause"
    /\ device' = [device EXCEPT !.paused = TRUE]
    /\ calls' = Append(calls, Call("pause", 0))
    /\ pc' = "cal_record"
    /\ UNCHANGED <<exit_code, error, log>>
    /\ UNCHANGED <<cfgVars, loadVars, rateVars, sinkVars, calVars, envVars>>

\* lines 263-268: the record of the k-th measurement, taken on channel c.  The
\* average of the rows and the device's zero offset stay symbolic.
CalibrationRecord(tv, c, k, vsf) ==
    [test_voltage |-> tv,
     measured_value |-> <<"avg", c, k>>,
     vscale |-> vsf[c],
     zero_offset |-> <<"zero_offset", c>>]

\* lines 259-268, then on to the next cell
CalRecord ==
    /\ pc = "cal_record"
    /\ LET rec == CalibrationRecord(test_voltages[vidx], channel_id, measures,
                                    vertical_scale_factor)
           cd == [calibration_data EXCEPT ![channel_id] = Append(@, rec)]
           to == AfterCell(cd, channel_id, vidx, Len(test_voltages), FALSE)
       IN  /\ pc' = to.pc
           /\ channel_id' = to.channel_id
           /\ vidx' = to.vidx
           /\ calibration_data' = to.calibration_data
    /\ calls' = calls \o <<Call("get_vscales", 0), Call("get_zero_offset", 0)>>
    /\ UNCHANGED <<test_voltages, data, calibration_file, measures, cmd,
                   measured_cells>>
    /\ UNCHANGED <<exit_code, error, log, device>>
    /\ UNCHANGED <<cfgVars, loadVars, rateVars, sinkVars, envVars>>

\* lines 271-272
CalWrite ==
    /\ pc = "cal_write"
    /\ calibration_file' = Append(calibration_file, calibration_data)
    /\ pc' = "cal_return"
    /\ UNCHANGED <<test_voltages, channel_id, vidx, calibration_data, data, measures,
                   cmd, measured_cells>>
    /\ UNCHANGED <<exit_code, error, log>>
    /\ UNCHANGED <<cfgVars, loadVars, devVars, rateVars, sinkVars, envVars>>

\* a variant of CalReturn that saves the records gathered before it closes
CalReturn_SavesRecords ==
    /\ pc = "cal_return"
    /\ calibration_file' = Append(calibration_file, calibration_data)
    /\ device' = Closed(device)
    /\ calls' = Append(calls, Call("close", 0))
    /\ Exit(0, "none")
    /\ UNCHANGED <<log, test_voltages, channel_id, vidx, calibration_data, data,
                   measures, cmd, measured_cells>>
    /\ UNCHANGED <<cfgVars, loadVars, rateVars, sinkVars, envVars>>

\* lines 123-124, after calibration_routine returned (line 241 or line 272)
CalReturn ==
    /\ pc = "cal_return"
    /\ device' = Closed(device)
    /\ calls' = Append(calls, Call("close", 0))
    /\ Exit(0, "none")
    /\ UNCHANGED log
    /\ UNCHANGED <<cfgVars, loadVars, rateVars, sinkVars, calVars, envVars>>

\* -------------------------------------------------- the operator's interrupt
\* the statements of the try of lines 101-116
InConnectTry(at) == at \in {"connect", "init"}

\* a variant of InExportTry whose try ends before the loops of lines 165-184
InExportTry_HeaderOnly(at) == at \in {"open", "header", "header_cal"}

\* the statements of the try of lines 139-184
InExportTry(at) == at \in {"open", "header", "header_cal", "pull", "write", "write2", "stamp"}

\* the rows already written when the interrupt cuts a writerows short
RowsCut(at, cd, a, sel) ==
    IF at \in {"write", "write2"}
    THEN LET rows == RowsToWrite(at, cd, a, sel)
         IN  {SubSeq(rows, 1, p) : p \in 0..(Len(rows) - 1)}
    ELSE {<<>>}

\* KeyboardInterrupt arrives, once, at any statement from connect() on:
\* the handler of lines 117-119, the handler of lines 185-187, or none
Interrupt ==
    /\ interrupted.at = "never"
    /\ pc \notin {"cli", "main", "load", "load_records", "construct", "exited"}
    /\ interrupted' = [at |-> pc, batches |-> batches]
    /\ IF InConnectTry(pc)
       THEN /\ device' = Closed(device)
            /\ calls' = Append(calls, Call("close", 0))
            /\ Exit(0, "none")
            /\ UNCHANGED <<log, sink>>
       ELSE IF InExportTry(pc)
       THEN /\ log' = log \cup {"info: canceled by user"}
            /\ sink' \in {sink \o cut :
                            cut \in RowsCut(pc, channel_data, args, selected_channels)}
            /\ pc' = "close_sink"
            /\ UNCHANGED <<exit_code, error, device, calls>>
       ELSE /\ KilledByInterrupt
            /\ UNCHANGED <<log, sink, device, calls>>
    /\ UNCHANGED <<csv_file, channel_data, batches, delivered>>
    /\ UNCHANGED <<args, session, disk>>
    /\ UNCHANGED <<cfgVars, loadVars, rateVars, calVars>>

\* ------------------------------------------------------ running it again
\* what the destination path holds once the process has ended
Artifact == IF args.csv_file_path = "-" THEN disk ELSE disk \o sink

\* after a run that opened and closed its sink, the exporter is started again
\* with the same arguments; the path keeps what the earlier runs appended to it
Restart ==
    /\ pc = "exited"
    /\ session < MaxSessions
    /\ args.calibrate_output_file_path = "None"
    /\ csv_file = "closed"
    /\ session' = session + 1
    /\ disk' = Artifact
    /\ pc' = IF args.entry = "cli" THEN "cli" ELSE "main"
    /\ interrupted' = NotInterrupted
    /\ exit_code' = 0 /\ error' = "none" /\ log' = {}
    /\ selected_channels' = <<>> /\ vertical_scale_factor' = <<>> /\ zosc' = 0 - 1
    /\ correction_data' = [c \in Channels |-> EmptyDict]
    /\ load_pos' = <<1, 1>>
    /\ device' = NoDevice /\ calls' = <<>>
    /\ counter' = 0 - 1 /\ start_time' = 0 - 1 /\ now' = 0
    /\ measured_sampling_rate' = <<>>
    /\ csv_file' = "unbound" /\ sink' = <<>> /\ channel_data' = <<>> /\ batches' = 0
    /\ delivered' = <<>>
    /\ UNCHANGED <<args, calVars>>

\* ------------------------------------------------------------- the inputs
NoCalibrationFile == [kind |-> "none", data |-> EmptyDict]

\* main("out.csv", [3, 1], [1.0], sampling_rate=1, do_sampling_rate_measure=False)
BaseArgs ==
    [entry |-> "api",
     csv_file_path |-> "out.csv",
     selected_channels |-> <<3, 1>>,
     vsf_none |-> FALSE,
     vertical_scale_factor |-> <<One>>,
     roll_mode |-> TRUE,
     calibrate_output_file_path |-> "None",
     calibration_file |-> NoCalibrationFile,
     zero_offset_shift_compensation_channel |-> 0,
     raw_or_volt |-> "volt",
     sampling_rate |-> 1,
     do_sampling_rate_measure |-> FALSE]

\* records of a calibration file: two test voltages, units 0 or 500, and the
\* vscales 1.0, 0.125 and 0
CalRecords ==
    {[test_voltage |-> tv, measured_value |-> mv, zero_offset |-> 10, vscale |-> One] :
        tv \in {5, 10}, mv \in {10, 510}}
    \cup {[test_voltage |-> 5, measured_value |-> 510, zero_offset |-> 10, vscale |-> vs] :
        vs \in {0, 125}}

\* calibration files: json of up to two channels with up to MaxRecords records
CalFiles ==
    {[kind |-> "file", data |-> d] :
        d \in UNION {[K -> SeqsOf(CalRecords, 0, MaxRecords)] : K \in SUBSET {0, 3}}}

GoodRecord == [test_voltage |-> 5, measured_value |-> 510, zero_offset |-> 10, vscale |-> One]

GoodFile == [kind |-> "file", data |-> [c \in {0} |-> <<GoodRecord>>]]

DegenerateFile ==
    [kind |-> "file",
     data |-> [c \in {0} |-> <<[GoodRecord EXCEPT !.measured_value = 10], GoodRecord>>]]

MissingFile == [kind |-> "missing", data |-> EmptyDict]

DirectoryAsFile == [kind |-> "dir", data |-> EmptyDict]

\* channel numbers drawn for the channel list and the compensation channel
ChannelInputs == {0, 1, 3, 8, 9}

FactorInputs == {One, 125, 2000}

\* inputs of the resolver: any channel list, vscale list (or None) and
\* compensation channel, from the command line or as arguments of main
ArgsResolve ==
    {[BaseArgs EXCEPT !.entry = e, !.selected_channels = sel, !.vsf_none = none,
                      !.vertical_scale_factor = vsf,
                      !.zero_offset_shift_compensation_channel = z] :
        e \in {"cli", "api"},
        sel \in SeqsOf(ChannelInputs, 0, MaxSel),
        none \in BOOLEAN,
        vsf \in SeqsOf(FactorInputs, 0, MaxFactors),
        z \in {0, 1, 8, 9}}

\* inputs of the calibration loader
ArgsLoad ==
    {[BaseArgs EXCEPT !.entry = e, !.calibration_file = f] :
        e \in {"cli", "api"},
        f \in CalFiles \cup {NoCalibrationFile, MissingFile, DirectoryAsFile}}

\* inputs of whole runs: the export variants, the calibration recorder, a
\* calibration file, the command line
ArgsMain ==
    {[BaseArgs EXCEPT !.roll_mode = r, !.raw_or_volt = rv, !.csv_file_path = p] :
        r \in BOOLEAN, rv \in {"volt", "volt+raw"},
        p \in {"-", "out.csv", "out.csv.xz"}}
    \cup {[BaseArgs EXCEPT !.roll_mode = r, !.do_sampling_rate_measure = TRUE] :
            r \in BOOLEAN}
    \cup {[BaseArgs EXCEPT !.csv_file_path = "None",
                           !.calibrate_output_file_path = "cal.json"],
          [BaseArgs EXCEPT !.csv_file_path = "out.csv",
                           !.calibrate_output_file_path = "cal.json",
                           !.do_sampling_rate_measure = TRUE]}
    \cup {[BaseArgs EXCEPT !.calibration_file = f] :
            f \in {GoodFile, DegenerateFile, MissingFile}}
    \cup {[BaseArgs EXCEPT !.entry = "cli", !.vertical_scale_factor = vsf] :
            vsf \in {<<>>, <<One, One, One>>}}

InitWith(A) ==
    /\ args \in A
    /\ session = 1
    /\ disk = <<>>
    /\ pc = IF args.entry = "cli" THEN "cli" ELSE "main"
    /\ Fresh

\* inputs of runs repeated on one destination path
ArgsAppend ==
    {[BaseArgs EXCEPT !.roll_mode = r] : r \in BOOLEAN}
    \cup {[BaseArgs EXCEPT !.csv_file_path = "None",
                           !.calibrate_output_file_path = "cal.json"],
          [BaseArgs EXCEPT !.csv_file_path = "-", !.do_sampling_rate_measure = TRUE],
          [BaseArgs EXCEPT !.calibration_file = GoodFile],
          [BaseArgs EXCEPT !.entry = "cli", !.vertical_scale_factor = <<>>]}

Init == InitWith(ArgsMain)

InitAppend == InitWith(ArgsAppend)

InitStartup == InitWith(ArgsResolve \cup ArgsLoad)

\* from the command line to the first call on the device
NextStartup ==
    \/ CliParse \/ Resolve \/ LoadOpen \/ LoadRecord \/ LoadFinish
    \/ Construct \/ Connect

\* one run of the program
NextRun ==
    \/ NextStartup
    \/ InitDevice \/ MeasurePull \/ Prepare \/ OpenSink
    \/ WriteHeaderLine \/ WriteZeroOffsets
    \/ PullBatch \/ WriteRows \/ WriteTimestamp \/ CloseSink \/ CloseDevice
    \/ SinkError
    \/ CalPause \/ CalVoltages \/ CalPrompt \/ CalResume \/ CalCollect
    \/ CalRepause \/ CalRecord \/ CalWrite \/ CalReturn
    \/ Interrupt

Next == NextRun \/ Restart

\* one run of the program, from its start to its exit
Spec == Init /\ [][NextRun]_vars

\* the arguments of the export runs
ArgsExport == {a \in ArgsMain : a.calibrate_output_file_path = "None"}

InitExport == InitWith(ArgsExport)

\* one export run: a run of the program that does not enter the recorder
NextExport ==
    \/ NextStartup
    \/ InitDevice \/ MeasurePull \/ Prepare \/ OpenSink
    \/ WriteHeaderLine \/ WriteZeroOffsets
    \/ PullBatch \/ WriteRows \/ WriteTimestamp \/ CloseSink \/ CloseDevice
    \/ SinkError
    \/ Interrupt

\* an export run in which the source keeps delivering while the rate is measured
SpecFair == InitExport /\ [][NextExport]_vars /\ WF_vars(MeasureDelivers)

\* runs of the exporter repeated on the same destination path
SpecAppend == InitAppend /\ [][Next]_vars

\* the start of a run over the resolver's and the loader's inputs
SpecStartup == InitStartup /\ [][NextStartup]_vars

\* ------------------------------------------------------------ properties
\* the whole header of this run, lines 153-163
FullHeader ==
    HeaderLines(selected_channels, args.sampling_rate, measured_sampling_rate,
                vertical_scale_factor) \o ZeroOffsetLines

HeaderKinds ==
    {"titles", "samplingrate", "measured samplingrate", "unix time", "iso time",
     "vscale", "calibration data", "zero_offset"}

IsRow(l) == l.kind = "row"

\* the sample a data row was taken at: <<batch, position in the batch>>
RowId(l) == <<l.v[1][2], l.v[1][3]>>

RowIds(lines) ==
    LET rows == SelectSeq(lines, IsRow)
    IN  [i \in DOMAIN rows |-> RowId(rows[i])]

\* every sample of the batches ds, in the order the driver produced them
RECURSIVE SamplesOf(_)
SamplesOf(ds) ==
    IF Len(ds) = 0 THEN <<>>
    ELSE SamplesOf(SubSeq(ds, 1, Len(ds) - 1))
            \o [i \in 1..ds[Len(ds)].n |-> <<ds[Len(ds)].b, i>>]

\* lines i..j of the sink agree with the header
StartsWithHeader(lines, header) ==
    /\ Len(lines) >= Len(header)
    /\ \A i \in DOMAIN header :
          lines[i].kind = header[i].kind /\ lines[i] = header[i]

C2_ReleasedOnEveryExit ==
    (pc = "exited" /\ device.state # "none") =>
        /\ device.closed >= 1
        /\ (csv_file # "unbound" => csv_file = "closed")

\* C3: when connect() or init() raises, the failure is logged, the device is
\* closed, the exit status is 1 and nothing else was done with the device or
\* the sink.
C3_ConnectFailureReleases ==
    (pc = "exited" /\ (log \cap {"error: connect", "error: init"}) # {}) =>
        /\ device.closed = 1
        /\ exit_code = 1
        /\ csv_file = "unbound"
        /\ \A i \in DOMAIN calls : calls[i].op \in {"connect", "init", "close"}

\* C4: an interrupt that arrives while the calibration recorder runs (at a
\* prompt or while the rows of a measurement are collected) ends the process
\* with the device closed and exit status 0.
C4_InterruptInCalibration ==
    (pc = "exited" /\ interrupted.at \in {"cal_voltages", "cal_prompt", "cal_collect"}) =>
        /\ device.closed = 1
        /\ exit_code = 0

\* C5: within one run the header is written exactly once and entirely before
\* the first data row: every header line in the sink is the line of the header
\* at that position, and every data row and checkpoint line comes after the
\* complete header.
C5_HeaderOnceBeforeRows ==
    \A i \in DOMAIN sink :
        IF sink[i].kind \in HeaderKinds
        THEN /\ i <= Len(FullHeader)
             /\ sink[i].kind = FullHeader[i].kind
             /\ sink[i] = FullHeader[i]
        ELSE /\ i > Len(FullHeader)
             /\ StartsWithHeader(sink, FullHeader)

\* rows of two batches are in the sink
C5_Witness ==
    /\ batches = 2
    /\ pc = "pull"
    /\ Len(RowIds(sink)) >= 2

\* the header's first line in what the destination path holds
TitleLines(lines) == {i \in DOMAIN lines : lines[i].kind = "titles"}

\* C6: after any sequence of export runs that append to the same destination
\* path, the path holds the metadata header exactly once.
C6_HeaderOnceInArtifact ==
    (pc = "exited" /\ csv_file = "closed" /\ args.csv_file_path # "-") =>
        Cardinality(TitleLines(Artifact)) <= 1

\* lines 29-54 have run without an AssertionError
Resolved == DOMAIN vertical_scale_factor # {}

\* C7: for every valid channel selection and every vscale list of length 1 or
\* of the selection's length, the resolved scale vector has one entry per
\* physical channel 0..7: 1.0 for a channel that is not selected, the single
\* factor when one is given, and otherwise the factor at the position the
\* channel has in the selection as given on input.
C7_ScaleVectorPositional ==
    (Resolved /\ ~args.vsf_none) =>
        LET sel == ChannelsOrDefault(args.selected_channels)
            f == args.vertical_scale_factor
        IN  /\ DOMAIN vertical_scale_factor = 0..(NumChannels - 1)
            /\ \A p \in 0..(NumChannels - 1) :
                  IF \A i \in DOMAIN sel : sel[i] # p + 1
                  THEN vertical_scale_factor[p] = One
                  ELSE IF Len(f) = 1
                  THEN vertical_scale_factor[p] = f[1]
                  ELSE \A i \in DOMAIN sel :
                          sel[i] = p + 1 => vertical_scale_factor[p] = f[i]

\* channels [3, 1] with factors [2.0, 0.125]: channel 3 gets 2.0, channel 1 0.125
C7_Witness ==
    /\ Resolved
    /\ args.selected_channels = <<3, 1>>
    /\ args.vertical_scale_factor = <<2000, 125>>
    /\ vertical_scale_factor[2] = 2000
    /\ vertical_scale_factor[0] = 125
    /\ vertical_scale_factor[7] = One

\* a configuration the resolver has to reject
InvalidConfiguration(a) ==
    LET sel == ChannelsOrDefault(a.selected_channels)
        z == a.zero_offset_shift_compensation_channel
    IN  \/ Cardinality(Range(sel)) # Len(sel)
        \/ \E i \in DOMAIN sel : sel[i] < 1 \/ sel[i] > 8
        \/ (~a.vsf_none /\ Len(a.vertical_scale_factor) \notin {1, Len(sel)})
        \/ (z # 0 /\ \E i \in DOMAIN sel : sel[i] = z)
        \/ (z # 0 /\ Len(sel) = 8)

\* C8: whenever the channels are not pairwise distinct, a channel is outside
\* 1..8, the vscale list has a length that is neither 1 nor the number of
\* selected channels, the compensation channel is a selected channel, or
\* compensation is requested with all 8 channels selected, the process ends
\* without constructing or touching the device, for every caller of main.
C8_InvalidConfigurationRejected ==
    InvalidConfiguration(args) => (device.state = "none" /\ calls = <<>>)

\* lines 66-89 have run to the end of the file
LoadCompleted ==
    /\ args.calibration_file.kind = "file"
    /\ "info: using calibration data" \in log
    /\ pc # "load_records"
    /\ error # "ZeroDivisionError"

\* the records the calibration file holds for channel c
RecordsOf(c) ==
    IF c \in DOMAIN args.calibration_file.data
    THEN args.calibration_file.data[c] ELSE <<>>

KeyOfRecord(r) == <<r.vscale, r.measured_value - r.zero_offset>>

\* the fraction q is test_voltage / (units * 0.01 * vscale) of record r, vscale
\* being in thousandths
IsFactorOf(q, r) ==
    /\ q[2] # 0
    /\ q[1] * (r.measured_value - r.zero_offset) * r.vscale
          = q[2] * r.test_voltage * 100 * 1000

\* C9: after a calibration file is loaded, the table has an entry under
\* (channel, vscale, units), units = measured_value - zero_offset, for every
\* record of every channel of the file, no other key, and under each key the
\* value test_voltage / (units * 0.01 * vscale) of the last record of that
\* channel with that key.  The record {5, 510, 10, 1.0} yields exactly 1.0
\* under (channel, 1.0, 500).
C9_CorrectionTable ==
    LoadCompleted =>
        \A c \in Channels :
            LET recs == RecordsOf(c)
            IN  /\ \A i \in DOMAIN recs :
                      /\ recs[i].vscale \in DOMAIN correction_data[c]
                      /\ (recs[i].measured_value - recs[i].zero_offset)
                            \in DOMAIN correction_data[c][recs[i].vscale]
                /\ \A v \in DOMAIN correction_data[c] :
                      \A u \in DOMAIN correction_data[c][v] :
                          \E i \in DOMAIN recs :
                              /\ KeyOfRecord(recs[i]) = <<v, u>>
                              /\ \A j \in (i + 1)..Len(recs) :
                                    KeyOfRecord(recs[j]) # <<v, u>>
                              /\ IsFactorOf(correction_data[c][v][u], recs[i])
                /\ (Len(recs) > 0 /\ recs[Len(recs)] = GoodRecord)
                      => correction_data[c][One][500] = <<1, 1>>

\* two records of channel 0 share vscale 1.0 and units 500; the later one,
\* with test voltage 10, decides the factor 2.0
C9_Witness ==
    /\ LoadCompleted
    /\ RecordsOf(0) = <<GoodRecord, [GoodRecord EXCEPT !.test_voltage = 10]>>
    /\ correction_data[0][One][500] = <<2, 1>>
    /\ device.state = "constructed"

\* the file holds a record with a zero denominator
HasDegenerateRecord(file) ==
    \E c \in DOMAIN file : \E i \in DOMAIN file[c] :
        file[c][i].measured_value = file[c][i].zero_offset \/ file[c][i].vscale = 0

\* C10: a record with a zero denominator (units = 0 or vscale = 0) does not
\* abort the load: it is skipped, every other record still gets its table
\* entry, and the run goes on to construct the device and connect.
C10_DegenerateRecordSkipped ==
    (/\ args.entry = "api"
     /\ args.calibration_file.kind = "file"
     /\ HasDegenerateRecord(args.calibration_file.data)
     /\ pc = "exited") =>
        /\ device.state # "none"
        /\ \A c \in DOMAIN args.calibration_file.data :
              \A i \in DOMAIN RecordsOf(c) :
                  LET r == RecordsOf(c)[i]
                  IN  (r.measured_value # r.zero_offset /\ r.vscale # 0) =>
                          /\ r.vscale \in DOMAIN correction_data[c]
                          /\ (r.measured_value - r.zero_offset)
                                \in DOMAIN correction_data[c][r.vscale]

\* ------------------------------------------------ the sampling-rate estimator
\* the batches measure_sampling_rate has pulled; read while main is at line 130
\* or has just left it, before the export pulls batches of its own
MeasureCalls == SelectSeq(calls, LAMBDA c : c.op = "request_samples_roll_mode")

RECURSIVE SumRows(_)
SumRows(s) == IF s = <<>> THEN 0 ELSE s[1].n + SumRows(Tail(s))

\* measure_sampling_rate has returned and main is at line 133
MeasureReturned ==
    /\ pc = "prepare"
    /\ args.do_sampling_rate_measure
    /\ measured_sampling_rate # <<>>

\* ... and it returned through the break of line 204
MeasureBroke == MeasureReturned /\ MeasureCalls[Len(MeasureCalls)].n > 0

\* C11: the rows of the first batch, which starts the timer, are not counted:
\* the count the estimator returns is the number of rows of the batches after
\* the first, and it returns only once these alone reach the required count
C11_WarmupExcluded ==
    MeasureBroke =>
        /\ counter = SumRows(Tail(MeasureCalls))
        /\ SumRows(Tail(MeasureCalls)) >= measurment_duration * args.sampling_rate

\* what C12 says of every state
C12_Accumulated ==
    /\ pc = "measure" => counter < measurment_duration * args.sampling_rate
    /\ MeasureBroke =>
          LET last == MeasureCalls[Len(MeasureCalls)]
          IN  /\ counter = SumRows(MeasureCalls)
              /\ counter >= measurment_duration * args.sampling_rate
              /\ counter - last.n < measurment_duration * args.sampling_rate
              /\ start_time # 0 - 1
              /\ measured_sampling_rate = <<counter, now - start_time>>

\* C12: the estimator adds up the rows of the batches it pulls, stops with the
\* first batch that brings the sum to duration * rate, pulls nothing after it
\* and returns sum / elapsed time; while the source delivers it does return
C12_EstimatorStops ==
    /\ []C12_Accumulated
    /\ (pc = "measure") ~> (pc # "measure")

C12_Witness == MeasureBroke /\ Len(MeasureCalls) >= 3

\* ------------------------------------------------------------ the data rows
\* the columns the arguments configure: the selection in input order, then in
\* volt+raw mode the raw companions of the same channels in the same order
ConfiguredColumns ==
    LET sel0 == ZeroBased(ChannelsOrDefault(args.selected_channels))
    IN  IF args.raw_or_volt = "volt+raw"
        THEN sel0 \o [k \in DOMAIN sel0 |-> sel0[k] + NumChannels]
        ELSE sel0

\* a data row holds the values of the columns cols at one sample instant
RowOfColumns(l, cols) ==
    /\ Len(l.v) = Len(cols)
    /\ \A k \in DOMAIN cols : l.v[k] = Sample(cols[k], l.v[1][2], l.v[1][3])

\* C13: in roll mode and in normal mode every data row in the sink holds one
\* value per configured column, all of one sample instant, in the order of the
\* selection (raw companions after it); no other channel's value is written,
\* and the title line of the header names the same columns in the same order
C13_RowsHoldConfiguredColumns ==
    \A i \in DOMAIN sink :
        /\ sink[i].kind = "row" => RowOfColumns(sink[i], ConfiguredColumns)
        /\ sink[i].kind = "titles" =>
              sink[i].v = [k \in DOMAIN ConfiguredColumns |->
                              ChannelTitle(ConfiguredColumns[k])]

\* ------------------------------------------------------ the order of the rows
\* how a checkpoint line shows in the shape of the sink (batches count from 1)
CheckpointMark == <<0, 0>>

\* what follows the header, row by row: the sample of a data row, or the mark
Shape(lines) ==
    [i \in DOMAIN lines |->
        IF IsRow(lines[i]) THEN RowId(lines[i]) ELSE CheckpointMark]

\* the blocks the delivered batches ds call for, per batches to a checkpoint
RECURSIVE BlocksOf(_, _)
BlocksOf(ds, per) ==
    IF Len(ds) < per THEN <<>>
    ELSE SamplesOf(SubSeq(ds, 1, per)) \o <<CheckpointMark>>
            \o BlocksOf(SubSeq(ds, per + 1, Len(ds)), per)

IsPrefix(s, t) == Len(s) <= Len(t) /\ SubSeq(t, 1, Len(s)) = s

\* the lines of the sink after the header
SinkBody == SubSeq(sink, Len(FullHeader) + 1, Len(sink))

\* what C14 says of every state once the sink is open: the body is made of data rows and checkpoint
\* lines only, it is the beginning of the blocks of the batches delivered so
\* far, and it is all of them whenever the loop waits for the next batch
C14_Blocks ==
    csv_file # "unbound" =>
        LET per == IF args.roll_mode THEN 1 ELSE 2
        IN  /\ \A i \in DOMAIN SinkBody : SinkBody[i].kind \in {"row", "checkpoint"}
            /\ IsPrefix(Shape(SinkBody), BlocksOf(delivered, per))
            /\ (pc = "pull" => Shape(SinkBody) = BlocksOf(delivered, per))

MeasuredCellsOf(c) == SelectSeq(measured_cells, LAMBDA m : m[1] = c)

\* C15: when the recorder completes without QUIT, the file written holds, under
\* every channel's key, one record for each cell of that channel answered with
\* MEASURE, in the order of the voltage list and with the cell's test voltage,
\* and no record for a cell that was skipped or never prompted
C15_OneRecordPerMeasuredCell ==
    calibration_file # <<>> =>
        LET out == calibration_file[1]
        IN  /\ DOMAIN out = Channels
            /\ \A c \in Channels :
                  LET cells == MeasuredCellsOf(c)
                  IN  /\ Len(out[c]) = Len(cells)
                      /\ \A k \in DOMAIN cells :
                            /\ out[c][k].test_voltage = test_voltages[cells[k][2]]
                            /\ k > 1 => cells[k][2] > cells[k - 1][2]

\* SKIP_VOLTAGE, MEASURE on the first channel, no other MEASURE: one record,
\* under the first channel's key, for its second voltage
C15_Witness ==
    /\ calibration_file # <<>>
    /\ test_voltages = <<5, 10>>
    /\ measured_cells = << <<0, 2>> >>
    /\ Len(calibration_file[1][0]) = 1
    /\ calibration_file[1][0][1].test_voltage = 10
    /\ \A c \in Channels \ {0} : calibration_file[1][c] = <<>>

\* what C16 says of every state
C16_WrittenOnlyAtTheEnd ==
    /\ Len(calibration_file) <= 1
    /\ calibration_file # <<>> =>
          /\ cmd # "q"
          /\ channel_id = NumChannels - 1
          /\ calibration_file[1] = calibration_data
    /\ cmd = "q" =>
          /\ calibration_file = <<>>
          /\ pc \in {"cal_return", "exited"}

\* what C16 says of every step taken after a QUIT
C16_NothingAfterQuit ==
    cmd = "q" =>
        /\ cmd' = "q"
        /\ calls' \in {calls, Append(calls, Call("close", 0))}
        /\ calibration_data' = calibration_data
        /\ measures' = measures
        /\ calibration_file' = <<>>

\* C16: QUIT at any prompt ends the recorder at once: no prompt and no
\* measurement follow and the output file is never written, so the records
\* of earlier cells are lost; the file is written only when the traversal
\* has come to the end of the last channel without a QUIT, and then once
C16_QuitDiscards ==
    /\ []C16_WrittenOnlyAtTheEnd
    /\ [][C16_NothingAfterQuit]_vars

\* a record was taken, then the operator quit, and the process has ended
C16_Witness ==
    /\ pc = "exited"
    /\ cmd = "q"
    /\ \E c \in DOMAIN calibration_data : Len(calibration_data[c]) >= 1
    /\ calibration_file = <<>>

\* the driver operations calibration_routine invokes, in order
RecorderOps ==
    {"pause", "cancel_pause", "request_samples_roll_mode_single_row",
     "get_vscales", "get_zero_offset"}

RecorderCalls == SelectSeq(calls, LAMBDA c : c.op \in RecorderOps)

\* the operations of one MEASURE, in the order the claim gives them; the two
\* reads of the device belong to appending the record
MeasureCycle ==
    <<"cancel_pause", "request_samples_roll_mode_single_row", "pause",
      "get_vscales", "get_zero_offset">>

\* the records taken so far, over all channels
RecordsTaken ==
    UNION {{<<c, k>> : k \in DOMAIN calibration_data[c]} : c \in DOMAIN calibration_data}

\* what C17 says of every state
C17_PausedAtPrompts ==
    /\ pc \in {"cal_voltages", "cal_prompt"} => device.paused
    /\ \A i \in DOMAIN RecorderCalls :
          LET call == RecorderCalls[i]
          IN  /\ call.op = IF i = 1 THEN "pause"
                           ELSE MeasureCycle[((i - 2) % Len(MeasureCycle)) + 1]
              /\ call.op = "request_samples_roll_mode_single_row" =>
                    \/ call.n = required_calibration_samples_nun
                    \/ call.n = 0 /\ i = Len(RecorderCalls) /\ error = "RuntimeError"
    /\ pc = "cal_prompt" =>
          /\ Len(RecorderCalls) = 1 + measures * Len(MeasureCycle)
          /\ Cardinality(RecordsTaken) = measures

\* what C17 says of every answer other than MEASURE
C17_SkipsLeaveTheDevice ==
    (pc = "cal_prompt" /\ cmd' \in {"s", "ss", "q"}) =>
        /\ calls' = calls
        /\ device' = device
        /\ pc' \in {"cal_prompt", "cal_write", "cal_return", "exited"}

\* C17: the device is paused whenever the recorder waits for the operator;
\* a MEASURE resumes it, pulls exactly 512 rows, pauses it again and appends
\* one record, in this order and before the next prompt; pause and
\* cancel_pause alternate, pause first; SKIP_VOLTAGE, SKIP_CHANNEL and QUIT
\* neither resume the device nor pull a row
C17_MeasureSequence ==
    /\ []C17_PausedAtPrompts
    /\ [][C17_SkipsLeaveTheDevice]_vars

\* two measurements are done and the recorder prompts again
C17_Witness ==
    /\ pc = "cal_prompt"
    /\ measures = 2
    /\ Len(RecorderCalls) = 11
    /\ device.paused

\* the recorder goes from the cell it is at to the next voltage of the channel
ToNextVoltage ==
    /\ pc' = "cal_prompt"
    /\ channel_id' = channel_id
    /\ vidx' = vidx + 1

\* ... to the first voltage of the next channel
ToNextChannel ==
    /\ pc' = "cal_prompt"
    /\ channel_id' = channel_id + 1
    /\ vidx' = 1

\* ... out of the loops, to line 271
ToTheEnd == pc' = "cal_write"

\* the step cell -> next cell of the channel-major, voltage-minor order
NextInOrder ==
    IF vidx < Len(test_voltages) THEN ToNextVoltage
    ELSE IF channel_id < NumChannels - 1 THEN ToNextChannel
    ELSE ToTheEnd

\* the records of every channel begun so far are kept as they are
RecordsKept ==
    \A c \in DOMAIN calibration_data :
        c \in DOMAIN calibration_data' /\ calibration_data'[c] = calibration_data[c]

\* what C18 says of every step
C18_Traversal ==
    /\ (pc = "cal_prompt" /\ pc' # "exited" /\ cmd' = "s") =>
          NextInOrder /\ RecordsKept
    /\ (pc = "cal_prompt" /\ pc' # "exited" /\ cmd' = "ss") =>
          /\ IF channel_id < NumChannels - 1 THEN ToNextChannel ELSE ToTheEnd
          /\ RecordsKept
    /\ (pc = "cal_prompt" /\ pc' # "exited" /\ cmd' = "measure") =>
          pc' = "cal_resume"
    /\ (pc \in {"cal_resume", "cal_collect", "cal_repause"} /\ pc' # "exited") =>
          channel_id' = channel_id /\ vidx' = vidx /\ RecordsKept
    /\ (pc = "cal_record" /\ pc' # "exited") => NextInOrder
    /\ (pc \in {"cal_prompt", "cal_record"} /\ pc' = "cal_prompt") =>
          \/ channel_id' > channel_id
          \/ channel_id' = channel_id /\ vidx' > vidx
    /\ pc \in {"cal_write", "cal_return"} => pc' \notin {"cal_prompt", "cal_resume"}

\* C18: the recorder prompts the cells channel by channel and, within a
\* channel, voltage by voltage, each at most once: MEASURE and SKIP_VOLTAGE go
\* on to the next voltage, or to the next channel after the last voltage;
\* SKIP_CHANNEL goes on to the next channel and keeps the channel's records;
\* after the last channel the traversal ends
C18_ChannelMajorOrder == [][C18_Traversal]_vars

\* a record was taken at the first voltage of the first channel, its second
\* voltage was answered with SKIP_CHANNEL, and the second channel is prompted
C18_Witness ==
    /\ pc = "cal_prompt"
    /\ cmd = "ss"
    /\ Len(test_voltages) = 2
    /\ channel_id = 1 /\ vidx = 1
    /\ measured_cells = << <<0, 1>> >>
    /\ Len(calibration_data[0]) = 1

\* ------------------------------------------------- the recorder standalone
\* the driver operations of the estimator and of the export
ExportOps ==
    {"request_samples_roll_mode", "request_samples_normal_mode",
     "get_calibration_data"}

\* calibration_routine has returned, by QUIT or after writing its file
RecorderReturned == cmd = "q" \/ calibration_file # <<>>

\* C19: with a calibration output path the recorder runs alone, whatever the
\* other arguments: the rate is never measured, no export sink is opened and
\* nothing is written to one; once the recorder has returned, by completion or
\* by QUIT, and no interrupt has arrived, the process ends with the device
\* closed exactly once and exit code 0
C19_RecorderStandalone ==
    args.calibrate_output_file_path # "None" =>
        /\ counter = 0 - 1 /\ start_time = 0 - 1 /\ measured_sampling_rate = <<>>
        /\ csv_file = "unbound" /\ sink = <<>> /\ delivered = <<>>
        /\ \A i \in DOMAIN calls : calls[i].op \notin ExportOps
        /\ (RecorderReturned /\ interrupted.at = "never") =>
              /\ pc \in {"cal_return", "exited"}
              /\ pc = "exited" =>
                    /\ device.closed = 1
                    /\ calls[Len(calls)].op = "close"
                    /\ exit_code = 0 /\ error = "none"

\* the recorder ran although an export path and the rate measurement were
\* asked for as well, the operator quit, and the process has ended
C19_Witness ==
    /\ args.calibrate_output_file_path # "None"
    /\ args.csv_file_path = "out.csv"
    /\ args.do_sampling_rate_measure
    /\ pc = "exited"
    /\ cmd = "q"
    /\ measures >= 1
    /\ device.closed = 1

\* ------------------------------------------------- the driver's lifecycle
CloseCalls == SelectSeq(calls, LAMBDA c : c.op = "close")

\* C20: the driver is used in lifecycle order: init() only after connect()
\* succeeded, every other operation but close() only after both succeeded;
\* the rate measurement, when asked for, is over before the export sink is
\* opened; close() is invoked at most once and nothing is invoked after it
C20_LifecycleOrder ==
    /\ \A i \in DOMAIN calls :
          /\ calls[i].op = "connect" => i = 1
          /\ calls[i].op = "init" =>
                /\ i = 2 /\ calls[1].op = "connect"
                /\ device.state \in {"connected", "initialised"}
          /\ calls[i].op \notin {"connect", "init", "close"} =>
                /\ i > 2 /\ calls[1].op = "connect" /\ calls[2].op = "init"
                /\ device.state = "initialised"
          /\ calls[i].op = "close" => i = Len(calls)
    /\ Len(CloseCalls) <= 1 /\ device.closed = Len(CloseCalls)
    /\ pc = "measure" => csv_file = "unbound"
    /\ (csv_file # "unbound" /\ args.do_sampling_rate_measure) =>
          /\ measured_sampling_rate # <<>>
          /\ \E i \in DOMAIN calls : calls[i].op = "request_samples_roll_mode"

\* an export with the rate measured first has run to its end
C20_Witness ==
    /\ pc = "exited"
    /\ args.do_sampling_rate_measure
    /\ args.calibrate_output_file_path = "None"
    /\ csv_file = "closed"
    /\ batches >= 1
    /\ device.closed = 1
    /\ calls[Len(calls)].op = "close"

====
